---- MODULE Spec2Model ----
(***************************************************************************)
(* State-machine model of VariableArray (src/src/VariableArray.h): the     *)
(* list of variable handles, the sensor-level operations that walk it, and *)
(* the CSV serialisation.                                                  *)
(*                                                                         *)
(* Indices are 1-based here (TLA+ sequences); index k of the model is      *)
(* index k-1 of the C++ array.  Strings the code builds are sequences of   *)
(* one-character strings.                                                  *)
(*                                                                         *)
(* Spec runs the operations on an array in use, each as one step from      *)
(* "idle" to "done".  SpecSetup runs setupSensors loop iteration by loop   *)
(* iteration, so that the order of the calls it makes is in the log.       *)
(* SpecRun is one run: the setup once, then wake, update and sleep calls.   *)
(* SpecLogger is the logging cycle of Logger (src/src/LoggerBase.h), whose  *)
(* interrupt handlers interleave with the steps of the main cycle.          *)
(***************************************************************************)
EXTENDS Integers, Sequences, FiniteSets, TLC

\* ---- bounds of the model ------------------------------------------------
MaxVars == 3        \* longest variable list explored
MaxFails == 5       \* most failures a sensor's setup() makes before it succeeds

MaxQuarters == 2    \* the clock is followed over this many quarters of an hour

\* ---- the world outside VariableArray ------------------------------------
\* Parent sensors, identified for deduplication by (name, location).
Sensors ==
    { [name |-> "A", loc |-> "1"],
      [name |-> "A", loc |-> "2"],
      [name |-> "B", loc |-> "1"] }

\* Texts a variable may report as its current value.
ValueStrings == { <<"7">>, <<"4", "2">> }

\* The separator of line 176.
Separator == <<",", " ">>

\* The attempts of line 61.
SetupAttempts == 5

\* "the first 15 minutes of logging" (LoggerBase.h lines 95 and 99).
FirstMinutes == 15

\* Logging rates, in minutes, a Logger may be constructed with.
LoggingIntervals == { 1, 7, 15 }

\* The instants the clock is read at, in seconds of epoch time: every quarter
\* of an hour and seven minutes after it.
Instants == { 900 * q + o : q \in 0..MaxQuarters, o \in { 0, 420 } }

RECURSIVE SeqsUpTo(_, _)
SeqsUpTo(S, n) ==
    IF n = 0 THEN { <<>> }
    ELSE LET shorter == SeqsUpTo(S, n - 1)
         IN  shorter \cup { Append(s, x) : s \in { t \in shorter : Len(t) = n - 1 }, x \in S }

VARIABLES
    variableList,   \* _variableList: per handle, its parent sensor's (name, loc)
    values,         \* per handle, the text getValueString() returns now
    pc,             \* "idle", "setup", "attach" or "done"
    op,             \* the operation running or just finished
    i,              \* loop index of setupSensors (1-based)
    setupTries,     \* local of setupSensors
    sensorSuccess,  \* local of setupSensors
    success,        \* local `success`; the bool an operation returns
    numSensors,     \* what getSensorCount returned
    csvString,      \* what generateSensorDataCSV returned
    arrayIndex,     \* the argument of the isLastVarFromSensor call
    calls,          \* log of the calls made on sensors and variables
    plan,           \* failures the setup() of the handle last reached makes before succeeding
    reported,       \* per handle reached: sensorSuccess as tested at line 74
    lastCSV,        \* <<s>>: s was returned by generateSensorDataCSV and no update came since
    between,        \* the sensor operations that returned since lastCSV was taken
    setupRan,       \* a setupSensors call has returned
    failedSensors,  \* the (name, loc) pairs no setup() call of that run succeeded on
    now,                     \* what getNowEpoch() returns at this moment
    loggingStart,            \* the instant logging started
    _loggingIntervalMinutes, \* the logging rate the Logger was constructed with
    markedEpochTime,         \* Logger::markedEpochTime
    isLoggingNow,            \* Logger::isLoggingNow
    isTestingNow,            \* Logger::isTestingNow
    startTesting,            \* Logger::startTesting
    lpc,                     \* where the main cycle stands; "off" without a Logger
    cycle                    \* what happened since the last wake

\* What callers have seen so far; no operation of VariableArray reads it.
observed == << lastCSV, between, setupRan, failedSensors >>

\* The state of the Logger.
logger == << now, loggingStart, _loggingIntervalMinutes, markedEpochTime,
             isLoggingNow, isTestingNow, startTesting, lpc, cycle >>

vars == << variableList, values, pc, op, i, setupTries, sensorSuccess, success,
           numSensors, csvString, arrayIndex, calls, plan, reported, observed,
           logger >>

_variableCount == Len(variableList)

Call(fn, idx, res) == [fn |-> fn, idx |-> idx, res |-> res]

\* ---- isLastVarFromSensor (lines 185-218) ---------------------------------
\* The scan of line 191: j runs from arrayIndex + 1 and breaks on a match.
RECURSIVE ScanLater(_, _)
ScanLater(idx, j) ==
    IF j > _variableCount THEN TRUE
    ELSE IF variableList[idx].name = variableList[j].name
            /\ variableList[idx].loc = variableList[j].loc
         THEN FALSE
         ELSE ScanLater(idx, j + 1)

\* Variant: the comparison of lines 193-194 looks at the name only.
RECURSIVE ScanLaterNameOnly(_, _)
ScanLaterNameOnly(idx, j) ==
    IF j > _variableCount THEN TRUE
    ELSE IF variableList[idx].name = variableList[j].name
         THEN FALSE
         ELSE ScanLaterNameOnly(idx, j + 1)

isLastVarFromSensor_NameOnly(idx) == ScanLaterNameOnly(idx, idx + 1)

\* Variant: the scan of line 191 starts at arrayIndex instead of arrayIndex + 1.
isLastVarFromSensor_FromSelf(idx) == ScanLater(idx, idx)

isLastVarFromSensor(idx) == ScanLater(idx, idx + 1)

\* ---- getSensorCount (lines 36-45) ----------------------------------------
RECURSIVE CountLoop(_, _)
CountLoop(k, n) ==
    IF k > _variableCount THEN n
    ELSE CountLoop(k + 1, IF isLastVarFromSensor(k) THEN n + 1 ELSE n)

getSensorCount == CountLoop(1, 1)

\* ---- sensorsSleep (lines 95-105) ----------------------------------------
\* r[k] is what the sleep() of handle k's parent sensor returns when called.
RECURSIVE SleepLoop(_, _, _)
SleepLoop(k, r, acc) ==
    IF k > _variableCount THEN acc
    ELSE SleepLoop(k + 1, r,
            IF isLastVarFromSensor(k)
            THEN [calls |-> Append(acc.calls, Call("sleep", k, r[k])),
                  success |-> acc.success /\ r[k]]
            ELSE acc)

\* Variant: the loop stops at the first sleep() that returns false.
RECURSIVE SleepLoopShortCircuit(_, _, _)
SleepLoopShortCircuit(k, r, acc) ==
    IF k > _variableCount \/ ~acc.success THEN acc
    ELSE SleepLoopShortCircuit(k + 1, r,
            IF isLastVarFromSensor(k)
            THEN [calls |-> Append(acc.calls, Call("sleep", k, r[k])),
                  success |-> acc.success /\ r[k]]
            ELSE acc)

sensorsSleep_ShortCircuit(r) ==
    SleepLoopShortCircuit(1, r, [calls |-> <<>>, success |-> TRUE])

sensorsSleep(r) == SleepLoop(1, r, [calls |-> <<>>, success |-> TRUE])

\* ---- sensorsWake (lines 108-118) -----------------------------------------
RECURSIVE WakeLoop(_, _, _)
WakeLoop(k, r, acc) ==
    IF k > _variableCount THEN acc
    ELSE WakeLoop(k + 1, r,
            IF isLastVarFromSensor(k)
            THEN [calls |-> Append(acc.calls, Call("wake", k, r[k])),
                  success |-> acc.success /\ r[k]]
            ELSE acc)

\* Variant: sensors whose setup failed are left out.
RECURSIVE WakeLoopSkipFailed(_, _, _)
WakeLoopSkipFailed(k, r, acc) ==
    IF k > _variableCount THEN acc
    ELSE WakeLoopSkipFailed(k + 1, r,
            IF isLastVarFromSensor(k) /\ variableList[k] \notin failedSensors
            THEN [calls |-> Append(acc.calls, Call("wake", k, r[k])),
                  success |-> acc.success /\ r[k]]
            ELSE acc)

sensorsWake_SkipFailed(r) == WakeLoopSkipFailed(1, r, [calls |-> <<>>, success |-> TRUE])

sensorsWake(r) == WakeLoop(1, r, [calls |-> <<>>, success |-> TRUE])

\* ---- updateAllSensors (lines 121-144) ------------------------------------
\* acc.update_success is the local of line 124, overwritten at line 134.
RECURSIVE UpdateLoop(_, _, _)
UpdateLoop(k, r, acc) ==
    IF k > _variableCount THEN acc
    ELSE UpdateLoop(k + 1, r,
            IF isLastVarFromSensor(k)
            THEN [calls |-> Append(acc.calls, Call("update", k, r[k])),
                  update_success |-> r[k]]
            ELSE acc)

\* Variant: every update result is AND-ed into the returned status.
RECURSIVE UpdateLoopAndAll(_, _, _)
UpdateLoopAndAll(k, r, acc) ==
    IF k > _variableCount THEN acc
    ELSE UpdateLoopAndAll(k + 1, r,
            IF isLastVarFromSensor(k)
            THEN [calls |-> Append(acc.calls, Call("update", k, r[k])),
                  success |-> acc.success /\ r[k]]
            ELSE acc)

updateAllSensors_AndAll(r) == UpdateLoopAndAll(1, r, [calls |-> <<>>, success |-> TRUE])

updateAllSensors(r) ==
    LET out == UpdateLoop(1, r, [calls |-> <<>>, update_success |-> TRUE])
    IN  [calls |-> out.calls, success |-> TRUE /\ out.update_success]

\* ---- generateSensorDataCSV (lines 167-181) -------------------------------
RECURSIVE CSVLoop(_, _)
CSVLoop(k, str) ==
    IF k > _variableCount THEN str
    ELSE CSVLoop(k + 1,
            IF k /= _variableCount
            THEN str \o values[k] \o Separator
            ELSE str \o values[k])

\* Variant: the separator is appended after every field, the last included.
RECURSIVE CSVLoopTrailing(_, _)
CSVLoopTrailing(k, str) ==
    IF k > _variableCount THEN str
    ELSE CSVLoopTrailing(k + 1, str \o values[k] \o Separator)

generateSensorDataCSV_Trailing == CSVLoopTrailing(1, <<>>)

\* Variant: csvString is a buffer that is not emptied between two calls.
generateSensorDataCSV_Accumulating ==
    CSVLoop(1, IF lastCSV = <<>> THEN <<>> ELSE lastCSV[1])

generateSensorDataCSV == CSVLoop(1, <<>>)

\* ---- setupSensors (lines 49-92) ------------------------------------------
\* The while loop of lines 61-73 for handle idx.  The parent sensor's setup()
\* fails `fails` times for this handle and succeeds after that; `made` counts
\* the calls made for the handle so far.
\* Variant: no break at line 71 and every attempt is counted.
RECURSIVE SetupWhile_NoBreak(_, _, _, _, _, _)
SetupWhile_NoBreak(idx, fails, tries, ok, made, log) ==
    IF tries < SetupAttempts
    THEN LET res == (made >= fails)
         IN  SetupWhile_NoBreak(idx, fails, tries + 1, res, made + 1,
                                Append(log, Call("setup", idx, res)))
    ELSE [setupTries |-> tries, sensorSuccess |-> ok, calls |-> log]

\* Variant: the test of line 61 is setupTries <= 5.
RECURSIVE SetupWhile_SixTries(_, _, _, _, _, _)
SetupWhile_SixTries(idx, fails, tries, ok, made, log) ==
    IF tries <= SetupAttempts
    THEN LET res == (made >= fails)
             log2 == Append(log, Call("setup", idx, res))
         IN  IF res
             THEN [setupTries |-> tries, sensorSuccess |-> TRUE, calls |-> log2]
             ELSE SetupWhile_SixTries(idx, fails, tries + 1, FALSE, made + 1, log2)
    ELSE [setupTries |-> tries, sensorSuccess |-> ok, calls |-> log]

RECURSIVE SetupWhile(_, _, _, _, _, _)
SetupWhile(idx, fails, tries, ok, made, log) ==
    IF tries < SetupAttempts
    THEN LET res == (made >= fails)
             log2 == Append(log, Call("setup", idx, res))
         IN  IF res
             THEN [setupTries |-> tries, sensorSuccess |-> TRUE, calls |-> log2]
             ELSE SetupWhile(idx, fails, tries + 1, FALSE, made + 1, log2)
    ELSE [setupTries |-> tries, sensorSuccess |-> ok, calls |-> log]

\* After init() (lines 22-29): the list is set and nothing is running.
Constructed ==
    /\ variableList \in SeqsUpTo(Sensors, MaxVars)
    /\ pc = "idle"
    /\ op = "none"
    /\ i = 0
    /\ setupTries = 0
    /\ sensorSuccess = FALSE
    /\ success = TRUE
    /\ numSensors = 0
    /\ csvString = <<>>
    /\ arrayIndex = 0
    /\ calls = <<>>
    /\ plan = 0
    /\ reported = <<>>
    /\ lastCSV = <<>>
    /\ between = {}
    /\ setupRan = FALSE
    /\ failedSensors = {}

\* No Logger drives the array.
NoLogger ==
    /\ now = 0
    /\ loggingStart = 0
    /\ _loggingIntervalMinutes = 1
    /\ markedEpochTime = 0
    /\ isLoggingNow = FALSE
    /\ isTestingNow = FALSE
    /\ startTesting = FALSE
    /\ lpc = "off"
    /\ cycle = [marked |-> FALSE, checked |-> "no", tested |-> 0, clock |-> 0,
                updated |-> FALSE, persisted |-> <<>>]

Init ==
    /\ Constructed
    /\ NoLogger
    /\ values \in [1..Len(variableList) -> ValueStrings]

\* setupSensors runs before any update: every variable still holds the same text.
InitSetup ==
    /\ Constructed
    /\ NoLogger
    /\ values = [k \in 1..Len(variableList) |-> <<"7">>]

GetSensorCount ==
    /\ pc = "idle"
    /\ pc' = "done"
    /\ op' = "getSensorCount"
    /\ numSensors' = getSensorCount
    /\ UNCHANGED << variableList, values, i, setupTries, sensorSuccess, success,
                    csvString, arrayIndex, calls, plan, reported >>
    /\ UNCHANGED observed
    /\ UNCHANGED logger

IsLastVarFromSensor ==
    /\ pc = "idle"
    /\ \E k \in 1.._variableCount :
          /\ arrayIndex' = k
          /\ success' = isLastVarFromSensor(k)
    /\ pc' = "done"
    /\ op' = "isLastVarFromSensor"
    /\ UNCHANGED << variableList, values, i, setupTries, sensorSuccess, numSensors,
                    csvString, calls, plan, reported >>
    /\ UNCHANGED observed
    /\ UNCHANGED logger

SensorsSleep ==
    /\ pc = "idle"
    /\ \E r \in [1.._variableCount -> BOOLEAN] :
          /\ calls' = sensorsSleep(r).calls
          /\ success' = sensorsSleep(r).success
    /\ pc' = "done"
    /\ op' = "sensorsSleep"
    /\ UNCHANGED << variableList, values, i, setupTries, sensorSuccess, numSensors,
                    csvString, arrayIndex, plan, reported >>
    /\ UNCHANGED observed
    /\ UNCHANGED logger

SensorsWake ==
    /\ pc = "idle"
    /\ \E r \in [1.._variableCount -> BOOLEAN] :
          /\ calls' = sensorsWake(r).calls
          /\ success' = sensorsWake(r).success
    /\ pc' = "done"
    /\ op' = "sensorsWake"
    /\ UNCHANGED << variableList, values, i, setupTries, sensorSuccess, numSensors,
                    csvString, arrayIndex, plan, reported >>
    /\ UNCHANGED observed
    /\ UNCHANGED logger

\* update() of a sensor leaves new readings in the variables it feeds.
UpdateAllSensors ==
    /\ pc = "idle"
    /\ \E r \in [1.._variableCount -> BOOLEAN] :
          /\ calls' = updateAllSensors(r).calls
          /\ success' = updateAllSensors(r).success
    /\ values' \in [1.._variableCount -> ValueStrings]
    /\ pc' = "done"
    /\ op' = "updateAllSensors"
    /\ UNCHANGED << variableList, i, setupTries, sensorSuccess, numSensors,
                    csvString, arrayIndex, plan, reported >>
    /\ UNCHANGED observed
    /\ UNCHANGED logger

GenerateSensorDataCSV ==
    /\ pc = "idle"
    /\ csvString' = generateSensorDataCSV
    /\ pc' = "done"
    /\ op' = "generateSensorDataCSV"
    /\ UNCHANGED << variableList, values, i, setupTries, sensorSuccess, success,
                    numSensors, arrayIndex, calls, plan, reported >>
    /\ UNCHANGED observed
    /\ UNCHANGED logger

\* Lines 51-58: the locals are initialised and the first loop starts.
SetupSensors ==
    /\ pc = "idle"
    /\ pc' = "setup"
    /\ op' = "setupSensors"
    /\ success' = TRUE
    /\ sensorSuccess' = FALSE
    /\ setupTries' = 0
    /\ i' = 1
    /\ UNCHANGED << variableList, values, numSensors, csvString, arrayIndex,
                    calls, plan, reported >>
    /\ UNCHANGED observed
    /\ UNCHANGED logger

\* Variant: line 80 is missing, a failed sensor setup does not reach success.
SetupSensor_ResultDropped ==
    /\ pc = "setup"
    /\ i <= _variableCount
    /\ \E fails \in 0..MaxFails :
          LET out == SetupWhile(i, fails, setupTries, sensorSuccess, 0, calls)
          IN  /\ setupTries' = out.setupTries
              /\ sensorSuccess' = out.sensorSuccess
              /\ calls' = out.calls
              /\ reported' = Append(reported, out.sensorSuccess)
              /\ plan' = fails
    /\ i' = i + 1
    /\ UNCHANGED << variableList, values, pc, op, success, numSensors, csvString,
                    arrayIndex >>
    /\ UNCHANGED observed
    /\ UNCHANGED logger

\* Lines 58-81: one iteration of the first loop, for handle i.
SetupSensor ==
    /\ pc = "setup"
    /\ i <= _variableCount
    /\ \E fails \in 0..MaxFails :
          LET out == SetupWhile(i, fails, setupTries, sensorSuccess, 0, calls)
          IN  /\ setupTries' = out.setupTries
              /\ sensorSuccess' = out.sensorSuccess
              /\ calls' = out.calls
              /\ reported' = Append(reported, out.sensorSuccess)
              /\ success' = (success /\ out.sensorSuccess)
              /\ plan' = fails
    /\ i' = i + 1
    /\ UNCHANGED << variableList, values, pc, op, numSensors, csvString, arrayIndex >>
    /\ UNCHANGED observed
    /\ UNCHANGED logger

\* Line 58 exits, line 84 starts the second loop.
BeginAttach ==
    /\ pc = "setup"
    /\ i > _variableCount
    /\ pc' = "attach"
    /\ i' = 1
    /\ UNCHANGED << variableList, values, op, setupTries, sensorSuccess, success,
                    numSensors, csvString, arrayIndex, calls, plan, reported >>
    /\ UNCHANGED observed
    /\ UNCHANGED logger

\* Variant: line 85 reads success = success && setup(), which skips the call
\* once success is false.
AttachVariable_ShortCircuit ==
    /\ pc = "attach"
    /\ i <= _variableCount
    /\ IF success
       THEN \E res \in BOOLEAN :
               /\ calls' = Append(calls, Call("attach", i, res))
               /\ success' = res
       ELSE UNCHANGED << calls, success >>
    /\ i' = i + 1
    /\ UNCHANGED << variableList, values, pc, op, setupTries, sensorSuccess,
                    numSensors, csvString, arrayIndex, plan, reported >>
    /\ UNCHANGED observed
    /\ UNCHANGED logger

\* Lines 84-86: one iteration of the second loop, Variable::setup() of handle i.
AttachVariable ==
    /\ pc = "attach"
    /\ i <= _variableCount
    /\ \E res \in BOOLEAN :
          /\ calls' = Append(calls, Call("attach", i, res))
          /\ success' = (success /\ res)
    /\ i' = i + 1
    /\ UNCHANGED << variableList, values, pc, op, setupTries, sensorSuccess,
                    numSensors, csvString, arrayIndex, plan, reported >>
    /\ UNCHANGED observed
    /\ UNCHANGED logger

\* Lines 88-90: the second loop exits and success is returned.
SetupSensorsReturn ==
    /\ pc = "attach"
    /\ i > _variableCount
    /\ pc' = "done"
    /\ UNCHANGED << variableList, values, op, i, setupTries, sensorSuccess, success,
                    numSensors, csvString, arrayIndex, calls, plan, reported >>
    /\ UNCHANGED observed
    /\ UNCHANGED logger

\* The caller reads the result; the locals of the finished call are gone.
Return ==
    /\ pc = "done"
    /\ pc' = "idle"
    /\ op' = "none"
    /\ i' = 0
    /\ setupTries' = 0
    /\ sensorSuccess' = FALSE
    /\ success' = TRUE
    /\ numSensors' = 0
    /\ csvString' = <<>>
    /\ arrayIndex' = 0
    /\ calls' = <<>>
    /\ plan' = 0
    /\ reported' = <<>>
    /\ lastCSV' = CASE op = "generateSensorDataCSV" -> << csvString >>
                   [] op = "updateAllSensors" -> <<>>
                   [] OTHER -> lastCSV
    /\ between' = CASE op \in {"generateSensorDataCSV", "updateAllSensors"} -> {}
                   [] op \in {"sensorsSleep", "sensorsWake"} /\ lastCSV /= <<>> ->
                        between \cup {op}
                   [] OTHER -> between
    /\ UNCHANGED << variableList, values, setupRan, failedSensors >>
    /\ UNCHANGED logger

\* setupSensors returns to a caller that keeps track of what failed.
ReturnFromSetupSensors ==
    /\ pc = "done"
    /\ op = "setupSensors"
    /\ pc' = "idle"
    /\ op' = "none"
    /\ i' = 0
    /\ setupTries' = 0
    /\ sensorSuccess' = FALSE
    /\ success' = TRUE
    /\ calls' = <<>>
    /\ plan' = 0
    /\ reported' = <<>>
    /\ setupRan' = TRUE
    /\ failedSensors' =
          { p \in { variableList[k] : k \in 1.._variableCount } :
              \A c \in DOMAIN calls :
                  (calls[c].fn = "setup" /\ variableList[calls[c].idx] = p)
                      => ~calls[c].res }
    /\ UNCHANGED << variableList, values, numSensors, csvString, arrayIndex,
                    lastCSV, between >>
    /\ UNCHANGED logger

\* Logger::begin (LoggerBase.h line 178) sets the sensors up, once per run.
Begin == ~setupRan /\ SetupSensors

\* The sensor operations of a logging run, which follow the setup.
WakeAfterSetup == setupRan /\ SensorsWake

UpdateAfterSetup == setupRan /\ UpdateAllSensors

SleepAfterSetup == setupRan /\ SensorsSleep

ReturnAfterSetup == op /= "setupSensors" /\ Return

\* The operations on an array that is set up.
Next ==
    \/ GetSensorCount
    \/ IsLastVarFromSensor
    \/ SensorsSleep
    \/ SensorsWake
    \/ UpdateAllSensors
    \/ GenerateSensorDataCSV
    \/ Return

Spec == Init /\ [][Next]_vars

\* setupSensors, step by step.
NextSetup ==
    \/ SetupSensors
    \/ SetupSensor
    \/ BeginAttach
    \/ AttachVariable
    \/ SetupSensorsReturn
    \/ Return

SpecSetup == InitSetup /\ [][NextSetup]_vars

\* A run: setupSensors once, then sensors are woken, updated and put to sleep.
NextRun ==
    \/ Begin
    \/ SetupSensor
    \/ BeginAttach
    \/ AttachVariable
    \/ SetupSensorsReturn
    \/ ReturnFromSetupSensors
    \/ WakeAfterSetup
    \/ UpdateAfterSetup
    \/ SleepAfterSetup
    \/ ReturnAfterSetup

SpecRun == InitSetup /\ [][NextRun]_vars

\* ==========================================================================
\* Logger (src/src/LoggerBase.h): the logging cycle and its interrupt handlers
\* ==========================================================================

\* _loggingIntervalSeconds, a uint16_t (line 219).
_loggingIntervalSeconds == (_loggingIntervalMinutes * 60) % 65536

\* Variant: the marked time is compared with the rate in minutes.
checkMarkedInterval_InMinutes ==
    \/ markedEpochTime % _loggingIntervalMinutes = 0
    \/ markedEpochTime - loggingStart < FirstMinutes * 60

\* checkMarkedInterval (lines 98-100): the marked time is an even interval of
\* the logging rate, or lies in the first 15 minutes of logging.
checkMarkedInterval ==
    \/ markedEpochTime % _loggingIntervalSeconds = 0
    \/ markedEpochTime - loggingStart < FirstMinutes * 60

\* What the cycle in progress has done so far: whether the time was marked, what
\* the interval check answered, which time it tested and at which clock reading,
\* whether the sensors were updated, and the record written.
NewCycle == [marked |-> FALSE, checked |-> "no", tested |-> 0, clock |-> 0,
             updated |-> FALSE, persisted |-> <<>>]

\* After begin(): the first call of log() is about to start.
InitLogger ==
    /\ Constructed
    /\ Len(variableList) <= 1
    /\ values \in [1..Len(variableList) -> ValueStrings]
    /\ now \in Instants
    /\ loggingStart = now
    /\ _loggingIntervalMinutes \in LoggingIntervals
    /\ markedEpochTime = 0
    /\ isLoggingNow = FALSE
    /\ isTestingNow = FALSE
    /\ startTesting = FALSE
    /\ lpc = "mark"
    /\ cycle = NewCycle

array == << variableList, values, pc, op, i, setupTries, sensorSuccess, success,
            numSensors, csvString, arrayIndex, calls, plan, reported, observed >>

\* The real-time clock goes on, whatever the processor does.
Tick ==
    /\ lpc /= "off"
    /\ now' \in { t \in Instants : t > now }
    /\ UNCHANGED << loggingStart, _loggingIntervalMinutes, markedEpochTime,
                    isLoggingNow, isTestingNow, startTesting, lpc, cycle >>
    /\ UNCHANGED array

\* Variant: the wake handler marks the time.
wakeISR_MarksTime ==
    /\ lpc = "sleeping"
    /\ lpc' = "mark"
    /\ markedEpochTime' = now
    /\ cycle' = NewCycle
    /\ UNCHANGED << now, loggingStart, _loggingIntervalMinutes, isLoggingNow,
                    isTestingNow, startTesting >>
    /\ UNCHANGED array

\* wakeISR (lines 107-110): does nothing, the processor just resumes.
wakeISR ==
    /\ lpc = "sleeping"
    /\ lpc' = "mark"
    /\ cycle' = NewCycle
    /\ UNCHANGED << now, loggingStart, _loggingIntervalMinutes, markedEpochTime,
                    isLoggingNow, isTestingNow, startTesting >>
    /\ UNCHANGED array

\* Variant: the handler enters the testing mode itself.
testingISR_RunsTesting ==
    /\ lpc \notin { "off", "sleeping" }
    /\ ~isTestingNow
    /\ isTestingNow' = TRUE
    /\ UNCHANGED << now, loggingStart, _loggingIntervalMinutes, markedEpochTime,
                    isLoggingNow, startTesting, lpc, cycle >>
    /\ UNCHANGED array

\* testingISR (line 168): asks for the testing mode; may come between any two
\* steps of the main cycle.
testingISR ==
    /\ lpc \notin { "off", "sleeping" }
    /\ ~startTesting
    /\ startTesting' = TRUE
    /\ UNCHANGED << now, loggingStart, _loggingIntervalMinutes, markedEpochTime,
                    isLoggingNow, isTestingNow, lpc, cycle >>
    /\ UNCHANGED array

\* markTime (lines 85-92): the current time becomes the marked time.
markTime ==
    /\ lpc = "mark"
    /\ markedEpochTime' = now
    /\ cycle' = [cycle EXCEPT !.marked = TRUE]
    /\ lpc' = "check"
    /\ UNCHANGED << now, loggingStart, _loggingIntervalMinutes, isLoggingNow,
                    isTestingNow, startTesting >>
    /\ UNCHANGED array

\* Variant: the cycle logs whatever the interval check answers.
CheckMarkedInterval_AlwaysLogs ==
    /\ lpc = "check"
    /\ cycle' = [cycle EXCEPT !.checked = IF checkMarkedInterval THEN "true" ELSE "false",
                              !.tested = markedEpochTime,
                              !.clock = now]
    /\ lpc' = "begin"
    /\ UNCHANGED << now, loggingStart, _loggingIntervalMinutes, markedEpochTime,
                    isLoggingNow, isTestingNow, startTesting >>
    /\ UNCHANGED array

\* log (line 181) tests the marked time.
CheckMarkedInterval ==
    /\ lpc = "check"
    /\ cycle' = [cycle EXCEPT !.checked = IF checkMarkedInterval THEN "true" ELSE "false",
                              !.tested = markedEpochTime,
                              !.clock = now]
    /\ lpc' = IF checkMarkedInterval THEN "begin" ELSE "test"
    /\ UNCHANGED << now, loggingStart, _loggingIntervalMinutes, markedEpochTime,
                    isLoggingNow, isTestingNow, startTesting >>
    /\ UNCHANGED array

LogBegin ==
    /\ lpc = "begin"
    /\ isLoggingNow' = TRUE
    /\ lpc' = "update"
    /\ UNCHANGED << now, loggingStart, _loggingIntervalMinutes, markedEpochTime,
                    isTestingNow, startTesting, cycle >>
    /\ UNCHANGED array

\* Variant: the sensor update samples the clock anew.
LogUpdate_Remarks ==
    /\ lpc = "update"
    /\ \E r \in [1.._variableCount -> BOOLEAN] :
          /\ calls' = updateAllSensors(r).calls
          /\ success' = updateAllSensors(r).success
    /\ values' \in [1.._variableCount -> ValueStrings]
    /\ markedEpochTime' = now
    /\ cycle' = [cycle EXCEPT !.updated = TRUE]
    /\ lpc' = "persist"
    /\ UNCHANGED << now, loggingStart, _loggingIntervalMinutes, isLoggingNow,
                    isTestingNow, startTesting >>
    /\ UNCHANGED << variableList, pc, op, i, setupTries, sensorSuccess,
                    numSensors, csvString, arrayIndex, plan, reported, observed >>

\* log updates all sensors, which may take seconds.
LogUpdate ==
    /\ lpc = "update"
    /\ \E r \in [1.._variableCount -> BOOLEAN] :
          /\ calls' = updateAllSensors(r).calls
          /\ success' = updateAllSensors(r).success
    /\ values' \in [1.._variableCount -> ValueStrings]
    /\ cycle' = [cycle EXCEPT !.updated = TRUE]
    /\ lpc' = "persist"
    /\ UNCHANGED << now, loggingStart, _loggingIntervalMinutes, markedEpochTime,
                    isLoggingNow, isTestingNow, startTesting >>
    /\ UNCHANGED << variableList, pc, op, i, setupTries, sensorSuccess,
                    numSensors, csvString, arrayIndex, plan, reported, observed >>

\* log writes the record: the marked time, then the values (lines 140-141, 156).
LogToSD ==
    /\ lpc = "persist"
    /\ csvString' = generateSensorDataCSV
    /\ cycle' = [cycle EXCEPT !.persisted =
                    << [time |-> markedEpochTime, csv |-> generateSensorDataCSV,
                        at |-> now] >>]
    /\ lpc' = "end"
    /\ UNCHANGED << now, loggingStart, _loggingIntervalMinutes, markedEpochTime,
                    isLoggingNow, isTestingNow, startTesting >>
    /\ UNCHANGED << variableList, values, pc, op, i, setupTries, sensorSuccess, success,
                    numSensors, arrayIndex, calls, plan, reported, observed >>

LogEnd ==
    /\ lpc = "end"
    /\ isLoggingNow' = FALSE
    /\ lpc' = "test"
    /\ UNCHANGED << now, loggingStart, _loggingIntervalMinutes, markedEpochTime,
                    isTestingNow, startTesting, cycle >>
    /\ UNCHANGED array

\* testingMode (line 171) starts when it was asked for and no logging runs.
TestingModeBegin ==
    /\ lpc = "test"
    /\ startTesting
    /\ isTestingNow' = TRUE
    /\ lpc' = "testing"
    /\ UNCHANGED << now, loggingStart, _loggingIntervalMinutes, markedEpochTime,
                    isLoggingNow, startTesting, cycle >>
    /\ UNCHANGED array

TestingModeEnd ==
    /\ lpc = "testing"
    /\ isTestingNow' = FALSE
    /\ startTesting' = FALSE
    /\ lpc' = "sleep"
    /\ UNCHANGED << now, loggingStart, _loggingIntervalMinutes, markedEpochTime,
                    isLoggingNow, cycle >>
    /\ UNCHANGED array

NoTesting ==
    /\ lpc = "test"
    /\ ~startTesting
    /\ lpc' = "sleep"
    /\ UNCHANGED << now, loggingStart, _loggingIntervalMinutes, markedEpochTime,
                    isLoggingNow, isTestingNow, startTesting, cycle >>
    /\ UNCHANGED array

\* systemSleep (lines 115-117): the processor halts until the wake signal.
systemSleep ==
    /\ lpc = "sleep"
    /\ lpc' = "sleeping"
    /\ UNCHANGED << now, loggingStart, _loggingIntervalMinutes, markedEpochTime,
                    isLoggingNow, isTestingNow, startTesting, cycle >>
    /\ UNCHANGED array

NextLogger ==
    \/ Tick
    \/ wakeISR
    \/ testingISR
    \/ markTime
    \/ CheckMarkedInterval
    \/ LogBegin
    \/ LogUpdate
    \/ LogToSD
    \/ LogEnd
    \/ TestingModeBegin
    \/ TestingModeEnd
    \/ NoTesting
    \/ systemSleep

SpecLogger == InitLogger /\ [][NextLogger]_vars

\* ==========================================================================
\* Properties
\* ==========================================================================

\* The (name, location) pairs that occur in the list.
Pairs == { variableList[k] : k \in 1.._variableCount }

\* The last index at which pair p occurs.
LastIndexOf(p) ==
    CHOOSE k \in 1.._variableCount :
        /\ variableList[k] = p
        /\ \A j \in 1.._variableCount : variableList[j] = p => j <= k

\* Positions of the log holding a call of fn made through handle k.
CallsVia(fn, k) == { c \in DOMAIN calls : calls[c].fn = fn /\ calls[c].idx = k }

\* Positions of the log holding a call of fn on a sensor with pair p.
CallsOn(fn, p) ==
    { c \in DOMAIN calls : calls[c].fn = fn /\ variableList[calls[c].idx] = p }

Finished(o) == pc = "done" /\ op = o

\* Inside or right after setupSensors.
InSetupSensors == op = "setupSensors"

\* --- C1 -------------------------------------------------------------------
\* C1: in setupSensors the 5-attempt budget is per handle: a handle whose
\* sensor's setup() fails on the first 4 calls made for it and succeeds on the
\* 5th is reported as set up, whatever failed on earlier handles.
C1_BudgetPerHandle ==
    (InSetupSensors /\ Len(reported) >= 1 /\ plan = 4)
        => reported[Len(reported)]

\* --- C2 -------------------------------------------------------------------
\* C2: when a handle's sensor fails all 5 setup attempts, setupSensors returns
\* false and every later handle still has its sensor's setup() called at least
\* once.
C2_ContinuesAfterExhaustion ==
    Finished("setupSensors") =>
        \A k \in 1.._variableCount :
            (/\ Cardinality(CallsVia("setup", k)) = SetupAttempts
             /\ \A c \in CallsVia("setup", k) : ~calls[c].res)
            => /\ ~success
               /\ \A j \in (k + 1).._variableCount : CallsVia("setup", j) /= {}

\* --- C3 -------------------------------------------------------------------
\* C3: one sensorsSleep() calls sleep() exactly once per distinct
\* (name, location) pair and nothing else, and one sensorsWake() calls wake()
\* exactly once per distinct pair and nothing else, duplicates or not.
C3_OncePerPair ==
    /\ Finished("sensorsSleep") =>
          /\ \A p \in Sensors :
                Cardinality(CallsOn("sleep", p)) = (IF p \in Pairs THEN 1 ELSE 0)
          /\ Len(calls) = Cardinality(Pairs)
    /\ Finished("sensorsWake") =>
          /\ \A p \in Sensors :
                Cardinality(CallsOn("wake", p)) = (IF p \in Pairs THEN 1 ELSE 0)
          /\ Len(calls) = Cardinality(Pairs)

\* A sleep over three handles of which the first and the last share a sensor.
C3_Witness ==
    /\ Finished("sensorsSleep")
    /\ _variableCount = 3
    /\ variableList[1] = variableList[3]
    /\ variableList[1] /= variableList[2]
    /\ Len(calls) = 2

\* --- C4 -------------------------------------------------------------------
AllSetupCallsSucceeded ==
    \A c \in DOMAIN calls : calls[c].fn = "setup" => calls[c].res

\* C4 as claimed: when every setup call succeeds at once, setupSensors calls
\* the sensor setup() exactly once per distinct (name, location) pair and the
\* attach exactly once per handle.
C4_SetupOncePerPair ==
    (Finished("setupSensors") /\ AllSetupCallsSucceeded) =>
        /\ \A p \in Sensors :
              Cardinality(CallsOn("setup", p)) = (IF p \in Pairs THEN 1 ELSE 0)
        /\ \A k \in 1.._variableCount : Cardinality(CallsVia("attach", k)) = 1

\* C4 as amended: when every setup call succeeds at once, setupSensors calls
\* the sensor setup() exactly once per handle (a sensor shared by m handles is
\* set up m times) and the attach exactly once per handle, and nothing else.
C4_SetupOncePerHandle ==
    (Finished("setupSensors") /\ AllSetupCallsSucceeded) =>
        /\ \A k \in 1.._variableCount :
              /\ Cardinality(CallsVia("setup", k)) = 1
              /\ Cardinality(CallsVia("attach", k)) = 1
        /\ Len(calls) = 2 * _variableCount

\* Variables 1 and 2 share a sensor, variable 3 has its own: 3 setup calls.
C4_Witness ==
    /\ Finished("setupSensors")
    /\ AllSetupCallsSucceeded
    /\ _variableCount = 3
    /\ variableList[1] = variableList[2]
    /\ variableList[3] /= variableList[1]
    /\ Cardinality({ c \in DOMAIN calls : calls[c].fn = "setup" }) = 3
    /\ Cardinality({ c \in DOMAIN calls : calls[c].fn = "attach" }) = 3

\* --- C5 -------------------------------------------------------------------
\* C5: getSensorCount() returns the number of distinct (name, location) pairs
\* among the handles' parent sensors.
C5_CountsDistinctSensors ==
    Finished("getSensorCount") => numSensors = Cardinality(Pairs)

\* --- C6 -------------------------------------------------------------------
\* C6: isLastVarFromSensor(i) is true iff no later index has the same
\* (name, location) pair; so every distinct pair has exactly one canonical
\* index, its last occurrence, and the last index of a non-empty list is
\* canonical.
C6_LastOccurrenceIsCanonical ==
    Finished("isLastVarFromSensor") =>
        /\ success = ~(\E j \in (arrayIndex + 1).._variableCount :
                            variableList[j] = variableList[arrayIndex])
        /\ \A p \in Pairs :
              { k \in 1.._variableCount :
                    variableList[k] = p /\ isLastVarFromSensor(k) } = { LastIndexOf(p) }
        /\ isLastVarFromSensor(_variableCount)

\* The first of three handles asked, its sensor occurring again at the end.
C6_Witness ==
    /\ Finished("isLastVarFromSensor")
    /\ _variableCount = 3
    /\ arrayIndex = 1
    /\ variableList[1] = variableList[3]
    /\ variableList[2].name = variableList[1].name
    /\ variableList[2] /= variableList[1]
    /\ ~success

\* --- C7 -------------------------------------------------------------------
\* C7: updateAllSensors() calls update() exactly once per distinct sensor and
\* returns the result of the last update() it made (true when it made none);
\* results of earlier sensors are not AND-ed in.
C7_LastUpdateDecides ==
    Finished("updateAllSensors") =>
        /\ \A p \in Sensors :
              Cardinality(CallsOn("update", p)) = (IF p \in Pairs THEN 1 ELSE 0)
        /\ Len(calls) = Cardinality(Pairs)
        /\ success = (IF calls = <<>> THEN TRUE ELSE calls[Len(calls)].res)
        /\ calls /= <<>> => calls[Len(calls)].idx = _variableCount

\* An earlier sensor's update failed, the last one succeeded: true is returned.
C7_Witness ==
    /\ Finished("updateAllSensors")
    /\ Len(calls) >= 2
    /\ ~calls[1].res
    /\ calls[Len(calls)].res
    /\ success

\* --- C8 -------------------------------------------------------------------
\* C8: if any canonical sensor's update() returns false, updateAllSensors()
\* returns false, and the remaining canonical sensors are still updated.
C8_UpdateFailurePropagates ==
    Finished("updateAllSensors") =>
        /\ (\E c \in DOMAIN calls : ~calls[c].res) => ~success
        /\ \A p \in Pairs : CallsOn("update", p) /= {}

\* --- C9 -------------------------------------------------------------------
\* C9: sensorsSleep() and sensorsWake() return the conjunction of the results
\* of all canonical sensors' calls (true for an empty list), and a false
\* result does not stop the remaining canonical sensors from being called.
C9_ConjunctionOfResults ==
    (Finished("sensorsSleep") \/ Finished("sensorsWake")) =>
        /\ success = (\A c \in DOMAIN calls : calls[c].res)
        /\ { calls[c].idx : c \in DOMAIN calls } = { LastIndexOf(p) : p \in Pairs }
        /\ _variableCount = 0 => success

\* The first sensor's sleep() failed and the others were still put to sleep.
C9_Witness ==
    /\ Finished("sensorsSleep")
    /\ Len(calls) >= 2
    /\ ~calls[1].res
    /\ calls[Len(calls)].res
    /\ ~success

\* --- C10 ------------------------------------------------------------------
\* The fields of a text: its pieces between occurrences of ", ".
RECURSIVE SplitFields(_, _, _)
SplitFields(str, k, field) ==
    IF k > Len(str) THEN << field >>
    ELSE IF k < Len(str) /\ str[k] = Separator[1] /\ str[k + 1] = Separator[2]
         THEN << field >> \o SplitFields(str, k + 2, <<>>)
         ELSE SplitFields(str, k + 1, Append(field, str[k]))

\* C10: generateSensorDataCSV() gives one field per handle, duplicates of a
\* shared sensor included, in list order, separated by ", " with none after
\* the last field; an empty list gives the empty string.
C10_OneFieldPerHandle ==
    Finished("generateSensorDataCSV") =>
        IF _variableCount = 0
        THEN csvString = <<>>
        ELSE SplitFields(csvString, 1, <<>>) = values

\* Three handles, the first two on one sensor, with different texts.
C10_Witness ==
    /\ Finished("generateSensorDataCSV")
    /\ _variableCount = 3
    /\ variableList[1] = variableList[2]
    /\ values[1] /= values[2]
    /\ csvString = values[1] \o <<",", " ">> \o values[2] \o <<",", " ">> \o values[3]

\* --- C11 ------------------------------------------------------------------
\* C11: generateSensorDataCSV() changes neither the list nor the variables'
\* values, and a call returns the same text as the previous call when no
\* updateAllSensors() came between them, sensorsSleep()/sensorsWake() or not.
C11_ReadOnlyIdempotent ==
    [][ (pc = "idle" /\ op' = "generateSensorDataCSV") =>
            /\ values' = values
            /\ variableList' = variableList
            /\ lastCSV /= <<>> => csvString' = lastCSV[1] ]_vars

\* A second call, three handles, after a sleep and a wake and no update.
C11_Witness ==
    /\ Finished("generateSensorDataCSV")
    /\ _variableCount = 3
    /\ values[1] /= values[3]
    /\ lastCSV = << csvString >>
    /\ between = {"sensorsSleep", "sensorsWake"}

\* --- C17 ------------------------------------------------------------------
AfterSetupFinished ==
    /\ setupRan
    /\ pc = "done"
    /\ op \in {"sensorsWake", "updateAllSensors", "sensorsSleep"}

\* Positions of the log holding a call on a sensor with pair p.
AnyCallsOn(p) == { c \in DOMAIN calls : variableList[calls[c].idx] = p }

\* C17 as claimed: a sensor whose setup never succeeded in setupSensors() is
\* excluded for the run: later sensorsWake(), updateAllSensors() and
\* sensorsSleep() calls make no call on it.
C17_FailedSensorsExcluded ==
    AfterSetupFinished => \A p \in failedSensors : AnyCallsOn(p) = {}

\* C17 as amended: a sensor whose setup never succeeded in setupSensors() is
\* not excluded: each later sensorsWake(), updateAllSensors() and
\* sensorsSleep() still makes its one call on every distinct sensor, that
\* sensor included.
C17_FailedSensorsStillCalled ==
    AfterSetupFinished =>
        \A p \in Pairs : Cardinality(AnyCallsOn(p)) = 1

\* A wake after a setup in which one of two distinct sensors never succeeded.
C17_Witness ==
    /\ AfterSetupFinished
    /\ op = "sensorsWake"
    /\ Cardinality(Pairs) >= 2
    /\ failedSensors /= {}
    /\ failedSensors /= Pairs
    /\ \A p \in failedSensors : Cardinality(AnyCallsOn(p)) = 1

\* --- C18 ------------------------------------------------------------------
\* The handles of the attach calls in the log, in the order they were made.
RECURSIVE AttachOrder(_)
AttachOrder(k) ==
    IF k > Len(calls) THEN <<>>
    ELSE IF calls[k].fn = "attach"
         THEN << calls[k].idx >> \o AttachOrder(k + 1)
         ELSE AttachOrder(k + 1)

\* C18: in setupSensors() no attach is made before the last sensor setup
\* attempt of the whole list, and the attach pass calls each handle's own
\* setup() exactly once, in list order, duplicates included, also for handles
\* whose sensor setup failed and after an attach that returned false.
C18_AttachPassAfterSetups ==
    /\ (InSetupSensors /\ pc = "setup") => AttachOrder(1) = <<>>
    /\ InSetupSensors =>
          \A c, d \in DOMAIN calls :
              (calls[c].fn = "setup" /\ calls[d].fn = "attach") => c < d
    /\ Finished("setupSensors") =>
          AttachOrder(1) = [k \in 1.._variableCount |-> k]

\* Three handles, two on one sensor; the last one's sensor setup failed and
\* the first attach returned false, yet all three attaches were made.
C18_Witness ==
    /\ Finished("setupSensors")
    /\ _variableCount = 3
    /\ variableList[1] = variableList[2]
    /\ ~reported[3]
    /\ \E c \in CallsVia("attach", 1) : ~calls[c].res
    /\ AttachOrder(1) = << 1, 2, 3 >>

\* --- C19 ------------------------------------------------------------------
\* C19: setupSensors() returns true iff for every handle some setup() call
\* made for it in this call returned true and every attach returned true; so
\* never when a handle got no successful setup call (none at all included),
\* and always for the empty list.
C19_ResultIsConjunction ==
    Finished("setupSensors") =>
        /\ success =
              (/\ \A k \in 1.._variableCount :
                     \E c \in CallsVia("setup", k) : calls[c].res
               /\ \A c \in DOMAIN calls : calls[c].fn = "attach" => calls[c].res)
        /\ _variableCount = 0 => success

\* A handle got no setup() call at all, every attach succeeded: false.
C19_Witness ==
    /\ Finished("setupSensors")
    /\ \E k \in 1.._variableCount : CallsVia("setup", k) = {}
    /\ \A c \in DOMAIN calls : calls[c].fn = "attach" => calls[c].res
    /\ ~success

\* --- C20 ------------------------------------------------------------------
\* Steps setupSensors still has to take: the rest of the running loop, the
\* loop exit, and the whole second loop while the first one runs.
StepsLeft ==
    CASE pc = "setup" -> (_variableCount + 1 - i) + (_variableCount + 2)
      [] pc = "attach" -> (_variableCount + 1 - i) + 1
      [] OTHER -> 0

\* C20: setupSensors() terminates whatever the sensors do: inside it a step
\* can always be taken and every step brings the return nearer; no handle has
\* its sensor's setup() called more than 5 times in one call, and none is
\* called again for a handle after a call that returned true.
C20_BoundedSetup ==
    /\ [](InSetupSensors =>
            \A k \in 1.._variableCount :
                /\ Cardinality(CallsVia("setup", k)) <= 5
                /\ \A c, d \in CallsVia("setup", k) : calls[c].res => d <= c)
    /\ [](pc \in {"setup", "attach"} => (ENABLED NextSetup /\ i <= _variableCount + 1))
    /\ [][ (pc \in {"setup", "attach"}) => (StepsLeft' < StepsLeft) ]_vars

\* The first handle's sensor never succeeds: five calls, then the call goes on
\* and returns.
C20_Witness ==
    /\ Finished("setupSensors")
    /\ _variableCount >= 2
    /\ Cardinality(CallsVia("setup", 1)) = 5
    /\ \A c \in CallsVia("setup", 1) : ~calls[c].res

\* ---- Logger ---------------------------------------------------------------
Asleep == lpc = "sleeping"

\* C12: within a cycle the time is marked before the interval is checked, the
\* sensors are updated and the record is written only after the check of this
\* cycle answered true, and a cycle whose check answered false updates no
\* sensor and writes no record.
C12_MarkDecideAct ==
    /\ cycle.checked /= "no" => cycle.marked
    /\ (cycle.updated \/ cycle.persisted /= <<>>) => cycle.checked = "true"
    /\ cycle.persisted /= <<>> => cycle.updated
    /\ cycle.checked = "false" => (~cycle.updated /\ cycle.persisted = <<>>)
    /\ lpc \in { "begin", "update", "persist", "end" } => cycle.checked = "true"

C12_Witness == cycle.marked /\ cycle.checked = "true" /\ cycle.updated /\ cycle.persisted /= <<>>

\* C13: only markTime changes the marked time, so the time written in the
\* record is the time the interval check of that cycle tested, also when the
\* clock went on between the check and the writing of the record.
C13_MarkedTimeFrame ==
    /\ [][ (markedEpochTime' /= markedEpochTime) =>
               (lpc = "mark" /\ lpc' = "check" /\ markedEpochTime' = now) ]_vars
    /\ [](cycle.persisted /= <<>> => cycle.persisted[1].time = cycle.tested)

C13_Witness ==
    /\ cycle.persisted /= <<>>
    /\ cycle.persisted[1].at > cycle.clock
    /\ cycle.persisted[1].time = cycle.tested

\* C14: the interval check answers true when the marked time is a multiple of
\* the logging interval in seconds or lies less than 15 minutes after the
\* start of logging, and false when it is neither and more than 15 minutes
\* have passed; with an interval of 15 minutes it answers false for a marked
\* time of 7 minutes past a quarter when logging started long before.
C14_IntervalCheck ==
    cycle.checked /= "no" =>
        LET onBoundary == cycle.tested % (_loggingIntervalMinutes * 60) = 0
            elapsed == cycle.tested - loggingStart
        IN  /\ (onBoundary \/ elapsed < 15 * 60) => cycle.checked = "true"
            /\ (~onBoundary /\ elapsed > 15 * 60) => cycle.checked = "false"
            /\ (_loggingIntervalMinutes = 15 /\ cycle.tested % 900 = 420 /\ elapsed > 900)
                   => cycle.checked = "false"

C14_Witness ==
    /\ cycle.checked = "false"
    /\ _loggingIntervalMinutes = 15
    /\ cycle.tested % 900 = 420
    /\ cycle.tested - loggingStart > 900

\* C15: logging and testing never run at the same time, wherever the testing
\* interrupt comes in the cycle.
C15_LoggingExcludesTesting == ~(isLoggingNow /\ isTestingNow)

C15_Witness == isLoggingNow /\ startTesting /\ lpc = "update"

\* C16: the processor goes to sleep only from the running cycle and with
\* neither isLoggingNow nor isTestingNow set; it leaves the sleep only by the
\* wake interrupt, continuing the cycle, and the wake interrupt leaves the
\* flags and the marked time as they were.
C16_SleepWake ==
    /\ [][ (~Asleep /\ Asleep') =>
               (lpc = "sleep" /\ ~isLoggingNow /\ ~isTestingNow) ]_vars
    /\ [][ Asleep =>
               /\ Asleep' \/ lpc' = "mark"
               /\ markedEpochTime' = markedEpochTime
               /\ isLoggingNow' = isLoggingNow
               /\ isTestingNow' = isTestingNow
               /\ startTesting' = startTesting
               /\ loggingStart' = loggingStart
               /\ _loggingIntervalMinutes' = _loggingIntervalMinutes ]_vars
    /\ [](Asleep => (~isLoggingNow /\ ~isTestingNow))

C16_Witness == lpc = "mark" /\ ~cycle.marked /\ markedEpochTime > 0

====
